---- MODULE Spec2Model ----
(***************************************************************************)
(* Reminder service: the four routes of api/reminder/__init__.py over the  *)
(* generic DatabaseRepository of core/db/repository.py.                    *)
(*                                                                         *)
(* The store is the "reminders" table: a set of rows (id, user_id, date,   *)
(* text).  Owner identifiers, dates and texts are compared as values (the  *)
(* UUID, date and string the framework parsed); the timestamp columns of   *)
(* TimestampMixin are not read by any route and are left out.  Storage     *)
(* failures (connectivity) are outside the model: every repository call    *)
(* reaches the store.  DatabaseRepository.update is called by no route; it  *)
(* is modelled as a direct call of the repository's public method.         *)
(*                                                                         *)
(* A handler runs until an await that goes to the store and may be         *)
(* suspended there while other requests run: there is one action per such  *)
(* piece.  Spec lets requests interleave at every await; SpecOneAtATime    *)
(* takes the same pieces under the schedule in which a request starts only *)
(* when no handler is suspended.                                           *)
(***************************************************************************)
EXTENDS Integers, FiniteSets, Sequences, Bags, TLC

\* ---------------------------------------------------------------- bounds
MaxIds == 2

Ids == 1..MaxIds
Owners == {"u1", "u2"}
Dates == 1..2
Texts == {"a", "b"}
Clients == {"c1", "c2"}

\* ------------------------------------------------------- absent values
\* Python None for an optional date query parameter.
NoDate == 0
\* Python None for "no row": the id of the NoRow placeholder.
NoId == 0
\* A request that carries no X-User-Id header.
NoHeader == "missing"

Headers == Owners \cup {NoHeader}
DatesOpt == Dates \cup {NoDate}

Row(i, u, d, t) == [id |-> i, user_id |-> u, date |-> d, text |-> t]
NoRow == Row(NoId, NoHeader, NoDate, "")
Rows == [id : Ids, user_id : Owners, date : Dates, text : Texts]

\* The primary key of the reminders table: Base.id and Reminder.user_id are
\* both declared primary_key=True.
PrimaryKey == <<"id", "user_id">>

\* The data dict of an update call: the fields it names carry a value, the
\* others the absent value of their kind.  One dict per kind of overwrite:
\* {"text": ..}, {"user_id": ..}, {"id": ..}.
UpdateData ==
    {Row(NoId, NoHeader, NoDate, "b"),
     Row(NoId, "u2", NoDate, ""),
     Row(MaxIds, NoHeader, NoDate, "")}

VARIABLES
    store,      \* rows of the reminders table
    used,       \* ids uuid4 has generated so far
    inflight,   \* the bag of handlers suspended at one of their awaits (where
                \* each resumes, and what it holds); one handler per client
    resp,       \* the last request answered (or repository call made) and
                \* the response it got
    pre,        \* the store before the step that answered it
    post,       \* the store after the step that answered it
    pending,    \* rows inserted by creates still awaiting their refresh when
                \* it was answered
    issued,     \* rows returned by 201 responses, not deleted since
    deleted     \* <<id, owner>> of rows a delete request fetched and removed

vars == <<store, used, inflight, resp, pre, post, pending, issued, deleted>>

\* ------------------------------------------------------------ repository
\* A query select(model).where(*args) is modelled by the rows of the table
\* that satisfy all its predicates (the Where... operators below).

\* DatabaseRepository.filter: all rows of the query, as a list in storage
\* order; the routes and the properties read it as a set.
RepoFilter(query) == query

\* DatabaseRepository.get: session.scalar gives the first row of the query in
\* storage order (any of its rows), or None.  It never raises on absence.
RepoGet(query) == IF query = {} THEN {NoRow} ELSE query

CreateWithFixedText(s, i, u, t, d) == s \cup {Row(i, u, d, "a")}

CreateUnlessDuplicate(s, i, u, t, d) ==
    IF \E r \in s : r.user_id = u /\ r.text = t /\ r.date = d
    THEN s ELSE s \cup {Row(i, u, d, t)}

\* DatabaseRepository.create: insert the instance and commit; no uniqueness
\* check on (user_id, date, text).
RepoCreate(s, i, u, t, d) == s \cup {Row(i, u, d, t)}

RemovedNothing(s, obj) == s

RemovedAllOfOwner(s, obj) == s \ {r \in s : r.user_id = obj.user_id}

\* DatabaseRepository.delete, lines 42-44: session.delete(obj) and commit
\* when a row was fetched; nothing when obj is None.
Removed(s, obj) == IF obj = NoRow THEN s ELSE s \ {obj}

\* for key, value in data.items(): setattr(user, key, value)
Overwrite(user, data) ==
    Row(IF data.id # NoId THEN data.id ELSE user.id,
        IF data.user_id # NoHeader THEN data.user_id ELSE user.user_id,
        IF data.date # NoDate THEN data.date ELSE user.date,
        IF data.text # "" THEN data.text ELSE user.text)

\* DatabaseRepository.update: session.get(model, ident) takes the primary key
\* of the row, one value per primary-key column.  The call passes the single
\* value (model.id == id) for a table whose key has two columns, so
\* session.get raises before any statement is sent and the method leaves the
\* store as it is.  With a key of the right size the fetched row would have
\* the fields of data overwritten and committed.  The set of stores it can
\* leave.
RepoUpdate(s, ident, data) ==
    IF Len(ident) # Len(PrimaryKey)
    THEN {s}
    ELSE {IF user = NoRow THEN s ELSE (s \ {user}) \cup {Overwrite(user, data)} :
             user \in RepoGet({r \in s : <<r.id, r.user_id>> = ident})}

ReusedIds(u) == Ids

\* Base.id default=uuid.uuid4: an id never generated before.
FreshIds(u) == Ids \ u

\* ------------------------------------------------------------ predicates
MatchIdOnly(r, i, u) == r.id = i

\* Reminder.id == reminder_id, Reminder.user_id == x_user_id
MatchIdOwner(r, i, u) == r.id = i /\ r.user_id = u

MatchIgnoringText(r, u, t, d) == r.user_id = u /\ r.date = d

\* Reminder.user_id == x_user_id, Reminder.text == data.text,
\* Reminder.date == data.date
MatchTriple(r, u, t, d) == r.user_id = u /\ r.text = t /\ r.date = d

\* Truthiness of an optional date: None is falsy, every date is truthy.
Truthy(d) == d # NoDate

MatchRangeStrict(r, u, s, e) ==
    /\ r.user_id = u
    /\ (Truthy(s) => r.date > s)
    /\ (Truthy(e) => r.date <= e)

\* filters = [user_id == x_user_id] (+ date >= start_date) (+ date <= end_date)
MatchRange(r, u, s, e) ==
    /\ r.user_id = u
    /\ (Truthy(s) => r.date >= s)
    /\ (Truthy(e) => r.date <= e)

AnyHeader(h) == TRUE

\* x_user_id: Annotated[str, Header()] is required: a request without it is
\* answered 422 by parameter validation before the handler body runs.
HeaderOk(h) == h # NoHeader

\* select(Reminder).where(id == reminder_id, user_id == x_user_id)
WhereIdOwner(s, i, u) == {r \in s : MatchIdOwner(r, i, u)}

\* select(Reminder).where(user_id == .., text == .., date == ..)
WhereTriple(s, u, t, d) == {r \in s : MatchTriple(r, u, t, d)}

\* select(Reminder).where(*filters)
WhereRange(s, u, b, e) == {r \in s : MatchRange(r, u, b, e)}

\* repository.get returned normally (it does not raise when no row matches),
\* so the except branch of delete_reminder_route is not taken.
GetRaised(r) == FALSE

\* ----------------------------------------------------------- responses
Request(op, h, i, d, t, s, e) ==
    [op |-> op, header |-> h, id |-> i, date |-> d, text |-> t,
     start_date |-> s, end_date |-> e]

Answer(req, status, body) ==
    [op |-> req.op, header |-> req.header, id |-> req.id, date |-> req.date,
     text |-> req.text, start_date |-> req.start_date,
     end_date |-> req.end_date, status |-> status, body |-> body]

NoResp == Answer(Request("none", NoHeader, NoId, NoDate, "", NoDate, NoDate), 0, {})

\* A handler suspended at an await: where it resumes and the values it holds
\* (its parameters, the id of the instance it inserted, the row it fetched).
Cont(pc, i, u, d, t) ==
    [pc |-> pc, id |-> i, user_id |-> u, date |-> d, text |-> t]

\* The event loop: a client with no request in flight may send one; a
\* suspended handler q is resumed and either suspends again as q2 or returns.
CanStart(b) == BagCardinality(b) < Cardinality(Clients)
Suspended(b) == BagToSet(b)
Start(b, q) == b (+) SetToBag({q})
Move(b, q, q2) == (b (-) SetToBag({q})) (+) SetToBag({q2})
Finish(b, q) == b (-) SetToBag({q})

\* The instances that suspended creates have committed and not yet refreshed.
Pending(b) ==
    {Row(q.id, q.user_id, q.date, q.text) :
        q \in {x \in Suspended(b) : x.pc = "committed"}}

\* The step returns the response; the store and the bag of handlers it
\* leaves are given by the conjuncts before it.
Respond(req, status, body) ==
    /\ resp' = Answer(req, status, body)
    /\ pre' = store
    /\ post' = store'
    /\ pending' = Pending(inflight')

\* The step ends at an await or leaves no response.
Silent == UNCHANGED <<resp, pre, post, pending>>

Init ==
    /\ store = {}
    /\ used = {}
    /\ inflight = EmptyBag
    /\ resp = NoResp
    /\ pre = {}
    /\ post = {}
    /\ pending = {}
    /\ issued = {}
    /\ deleted = {}

\* ------------------------------------------------ routes with one await
\* GET /reminder/{reminder_id}: one query, then the response.
get_reminder_route(h, i) ==
    LET req == Request("get", h, i, NoDate, "", NoDate, NoDate) IN
    /\ UNCHANGED <<store, used, inflight, issued, deleted>>
    /\ IF ~HeaderOk(h)
       THEN Respond(req, 422, {})
       ELSE \E reminder \in RepoGet(WhereIdOwner(store, i, h)) :
              IF reminder = NoRow
              THEN Respond(req, 404, {})
              ELSE Respond(req, 200, {reminder})

\* GET /reminder/: one query, then the response.
get_all_reminders_route(h, s, e) ==
    LET req == Request("get_all", h, NoId, NoDate, "", s, e) IN
    /\ UNCHANGED <<store, used, inflight, issued, deleted>>
    /\ IF ~HeaderOk(h)
       THEN Respond(req, 422, {})
       ELSE Respond(req, 200, RepoFilter(WhereRange(store, h, s, e)))

GetReminder == \E h \in Headers, i \in Ids : get_reminder_route(h, i)

GetAllReminders ==
    \E h \in Headers, s \in DatesOpt, e \in DatesOpt :
        get_all_reminders_route(h, s, e)

\* ------------------------------------- POST /reminder/, await by await
\* create_reminder_route, lines 121-130: the existence query.  A request that
\* passes it is suspended before repository.create.
CreateCheck ==
    \E h \in Headers, d \in Dates, t \in Texts :
        LET req == Request("create", h, NoId, d, t, NoDate, NoDate)
            existing_reminder == RepoFilter(WhereTriple(store, h, t, d))
        IN
        /\ CanStart(inflight)
        /\ UNCHANGED <<store, used, issued, deleted>>
        /\ IF ~HeaderOk(h)
           THEN /\ UNCHANGED inflight
                /\ Respond(req, 422, {})
           ELSE IF existing_reminder # {}
           THEN /\ UNCHANGED inflight
                /\ Respond(req, 409, {})
           ELSE /\ inflight' = Start(inflight, Cont("checked", NoId, h, d, t))
                /\ Silent

\* DatabaseRepository.create, lines 21-23: the instance gets its uuid4 id, is
\* inserted and committed; the handler is suspended before the refresh.
CreateCommit ==
    \E q \in Suspended(inflight) :
        /\ q.pc = "checked"
        /\ \E i \in FreshIds(used) :
            /\ store' = RepoCreate(store, i, q.user_id, q.text, q.date)
            /\ used' = used \cup {i}
            /\ inflight' = Move(inflight, q,
                                 Cont("committed", i, q.user_id, q.date, q.text))
        /\ UNCHANGED <<issued, deleted>>
        /\ Silent

\* DatabaseRepository.create, lines 24-25, and the response: the refresh reads
\* the instance's row back by primary key (id, user_id).  When another request
\* has deleted the row since the commit the refresh raises and the create is
\* answered with a server error.
CreateRefresh ==
    \E q \in Suspended(inflight) :
        LET req == Request("create", q.user_id, NoId, q.date, q.text, NoDate, NoDate)
        IN
        /\ q.pc = "committed"
        /\ inflight' = Finish(inflight, q)
        /\ UNCHANGED <<store, used, deleted>>
        /\ \E new_reminder \in RepoGet(WhereIdOwner(store, q.id, q.user_id)) :
              IF new_reminder = NoRow
              THEN /\ UNCHANGED issued
                   /\ Respond(req, 500, {})
              ELSE /\ issued' = issued \cup {new_reminder}
                   /\ Respond(req, 201, {new_reminder})

\* ------------------------- DELETE /reminder/{reminder_id}, await by await
\* delete_reminder_route, lines 159-164: the first repository.get, whose
\* result is dropped; only an exception would lead to 404.
DeleteGet ==
    \E h \in Headers, i \in Ids :
        LET req == Request("delete", h, i, NoDate, "", NoDate, NoDate) IN
        /\ CanStart(inflight)
        /\ UNCHANGED <<store, used, issued, deleted>>
        /\ IF ~HeaderOk(h)
           THEN /\ UNCHANGED inflight
                /\ Respond(req, 422, {})
           ELSE \E found \in RepoGet(WhereIdOwner(store, i, h)) :
                IF GetRaised(found)
                THEN /\ UNCHANGED inflight
                     /\ Respond(req, 404, {})
                ELSE /\ inflight' = Start(inflight, Cont("got", i, h, NoDate, ""))
                     /\ Silent

\* DatabaseRepository.delete, lines 40-43: the second get.  With no row the
\* method returns and the route answers 200; with a row, session.delete marks
\* it in the request's own session (nothing is sent to the store) and the
\* handler is suspended before the commit.
DeleteFetch ==
    \E q \in Suspended(inflight) :
        LET req == Request("delete", q.user_id, q.id, NoDate, "", NoDate, NoDate)
        IN
        /\ q.pc = "got"
        /\ UNCHANGED <<store, used, issued, deleted>>
        /\ \E obj \in RepoGet(WhereIdOwner(store, q.id, q.user_id)) :
              IF obj = NoRow
              THEN /\ inflight' = Finish(inflight, q)
                   /\ Respond(req, 200, {})
              ELSE /\ inflight' = Move(inflight, q,
                                        Cont("fetched", obj.id, obj.user_id,
                                             obj.date, obj.text))
                   /\ Silent

\* DatabaseRepository.delete, line 44, and the response: the commit sends the
\* DELETE of the fetched row (which matches nothing when another request has
\* removed it meanwhile) and the route answers 200.
DeleteCommit ==
    \E q \in Suspended(inflight) :
        LET obj == Row(q.id, q.user_id, q.date, q.text)
            req == Request("delete", q.user_id, q.id, NoDate, "", NoDate, NoDate)
        IN
        /\ q.pc = "fetched"
        /\ store' = Removed(store, obj)
        /\ inflight' = Finish(inflight, q)
        /\ issued' = issued \ {obj}
        /\ deleted' = deleted \cup {<<obj.id, obj.user_id>>}
        /\ UNCHANGED used
        /\ Respond(req, 200, {})

\* POST /reminder/: the handler, piece by piece.
create_reminder_route ==
    \/ CreateCheck
    \/ CreateCommit
    \/ CreateRefresh

\* DELETE /reminder/{reminder_id}: the handler, piece by piece.
delete_reminder_route ==
    \/ DeleteGet
    \/ DeleteFetch
    \/ DeleteCommit

\* ----------------------------------------- DatabaseRepository.update
\* A direct call update(id, data) of the repository (no route makes it): it
\* raises in session.get and answers no request; the store is what
\* RepoUpdate leaves.
Update ==
    \E i \in Ids, data \in UpdateData :
        LET req == Request("update", NoHeader, i, NoDate, "", NoDate, NoDate) IN
        /\ store' \in RepoUpdate(store, <<i>>, data)
        /\ UNCHANGED <<used, inflight, issued, deleted>>
        /\ Respond(req, 0, {})

\* Requests arrive at any time and interleave at their awaits.
Next ==
    \/ GetReminder
    \/ GetAllReminders
    \/ create_reminder_route
    \/ delete_reminder_route
    \/ Update

Spec == Init /\ [][Next]_vars

\* ------------------------------------------------- one request at a time
\* The schedule in which requests do not overlap: at most one handler is
\* suspended, and while one is, the only step taken is its next piece.
OneAtATime ==
    /\ BagCardinality(inflight') <= 1
    /\ inflight = EmptyBag \/ inflight' # inflight

NextOneAtATime ==
    \/ GetReminder /\ OneAtATime
    \/ GetAllReminders /\ OneAtATime
    \/ CreateCheck /\ OneAtATime
    \/ CreateCommit /\ OneAtATime
    \/ CreateRefresh /\ OneAtATime
    \/ DeleteGet /\ OneAtATime
    \/ DeleteFetch /\ OneAtATime
    \/ DeleteCommit /\ OneAtATime
    \/ Update /\ OneAtATime

SpecOneAtATime == Init /\ [][NextOneAtATime]_vars

\* ============================================================ properties
Answered(op) == resp.op = op /\ resp.header \in Owners

\* Rows of a store with the id and the owner of the last request.
Asked(s) == {r \in s : r.id = resp.id /\ r.user_id = resp.header}

Owned(s, u) == {r \in s : r.user_id = u}

SameTriple(r1, r2) ==
    r1.user_id = r2.user_id /\ r1.date = r2.date /\ r1.text = r2.text

\* C1: fetch-one returns a reminder only when the store holds a reminder with
\* the requested id whose user_id is the requesting owner; when the row with
\* that id belongs to another owner the answer is 404 and no row is returned.
C1_OwnershipIsolation ==
    Answered("get") =>
        /\ resp.status = 200 =>
              /\ resp.body # {}
              /\ resp.body \subseteq Asked(pre)
        /\ (\E r \in pre : r.id = resp.id /\ r.user_id # resp.header) =>
              /\ resp.status = 404
              /\ resp.body = {}

C1_Witness ==
    /\ Answered("get")
    /\ resp.status = 404
    /\ \E r \in pre : r.id = resp.id /\ r.user_id # resp.header

\* C2: a delete request whose (id, owner) pair matches no stored reminder is
\* answered 404, never success.
C2_DeleteMissingIsNotFound ==
    (Answered("delete") /\ Asked(pre) = {}) => resp.status = 404

\* C3: once a delete request has removed a reminder, the store holds no row
\* with that id and owner, and every later fetch-one for that id and owner
\* answers 404.
C3_DeleteThenFetch ==
    \A p \in deleted :
        /\ ~ \E r \in store : r.id = p[1] /\ r.user_id = p[2]
        /\ (Answered("get") /\ resp.id = p[1] /\ resp.header = p[2]) =>
              (resp.status = 404 /\ resp.body = {})

C3_Witness ==
    /\ Answered("get")
    /\ <<resp.id, resp.header>> \in deleted
    /\ resp.status = 404
    /\ store # {}

\* Fetch-many answers 200 with exactly the stored reminders of the caller
\* whose date is within the given inclusive bounds.
FetchManyIsReferenceSet ==
    Answered("get_all") =>
        /\ resp.status = 200
        /\ \A r \in Rows \cup pre \cup resp.body :
              r \in resp.body <=>
                 /\ r \in pre
                 /\ r.user_id = resp.header
                 /\ (resp.start_date # NoDate => r.date >= resp.start_date)
                 /\ (resp.end_date # NoDate => r.date <= resp.end_date)

Unbounded == resp.start_date = NoDate /\ resp.end_date = NoDate

\* C4 as stated: the reference set, and with no bound as many reminders as
\* the caller's successful (answered 201) creates not yet deleted.
C4_AsStated ==
    /\ FetchManyIsReferenceSet
    /\ (Answered("get_all") /\ Unbounded) =>
          Cardinality(resp.body) = Cardinality(Owned(issued, resp.header))

\* C4: the reference set; with no bound the result holds every reminder the
\* caller's creates have returned and that is not deleted, and besides them
\* only the rows of the caller's creates that have inserted, have not yet
\* answered and whose row is still stored (no delete has removed it since);
\* its size is the number of the former plus the number of the latter.
C4_FetchManyReference ==
    /\ FetchManyIsReferenceSet
    /\ (Answered("get_all") /\ Unbounded) =>
          /\ Owned(issued, resp.header) \subseteq resp.body
          /\ resp.body \ issued \subseteq pending
          /\ Cardinality(resp.body) =
                Cardinality(Owned(issued, resp.header))
                + Cardinality(Owned(pending \cap pre, resp.header))

C4_Witness ==
    /\ Answered("get_all")
    /\ resp.start_date # NoDate
    /\ resp.end_date # NoDate
    /\ resp.body # {}
    /\ \E r \in pre \ resp.body : r.user_id = resp.header

\* The last create answered 409 with the store, which held its (owner, date,
\* text), left as it was, or 201 with the one stored reminder of that triple.
CreateAnswer ==
    Answered("create") =>
        /\ resp.status \in {409, 201}
        /\ resp.status = 409 =>
              /\ post = pre
              /\ \E r \in pre : r.user_id = resp.header /\ r.date = resp.date
                                /\ r.text = resp.text
        /\ resp.status = 201 =>
              \E r \in post :
                 /\ resp.body = {r}
                 /\ r.user_id = resp.header
                 /\ r.date = resp.date
                 /\ r.text = resp.text
                 /\ \A r2 \in post : SameTriple(r, r2) => r2 = r

NoSharedTriple == \A r1, r2 \in store : SameTriple(r1, r2) => r1 = r2

\* C5: with requests handled one at a time, a create whose (owner, date, text)
\* is already stored answers 409 and leaves the store as it was (it goes on
\* to its insert only when no stored row has that triple); any other create
\* adds exactly one row with that triple and answers 201; no two stored
\* reminders share (user_id, date, text).
C5_DuplicateCreateRejected ==
    [][/\ \A q \in Suspended(inflight') :
             (q.pc = "checked" /\ CopiesIn(q, inflight') > CopiesIn(q, inflight)) =>
                /\ store' = store
                /\ ~ \E r \in store : r.user_id = q.user_id /\ r.date = q.date
                                       /\ r.text = q.text
       /\ \A q \in Suspended(inflight) :
             (q.pc = "checked" /\ CopiesIn(q, inflight') < CopiesIn(q, inflight)) =>
                /\ Cardinality(store' \ store) = 1
                /\ store \subseteq store'
                /\ \A r \in store' \ store :
                      r.user_id = q.user_id /\ r.date = q.date /\ r.text = q.text
       /\ CreateAnswer'
       /\ NoSharedTriple']_vars

C5_Witness ==
    /\ Answered("create")
    /\ resp.status = 409
    /\ post = pre
    /\ \E r \in store : r.user_id = resp.header /\ r.date = resp.date
                        /\ r.text = resp.text

\* C6: a create request that passed the existence query and was suspended
\* inserts when it resumes, whatever the store has come to hold: the step
\* adds exactly one row with its owner, date and text under a new id.  Two
\* concurrent identical requests so both insert and both answer 201, leaving
\* two rows with the same (user_id, date, text) and different ids.
C6_InsertAfterCheck ==
    [][\A q \in Suspended(inflight) :
          (q.pc = "checked" /\ CopiesIn(q, inflight') < CopiesIn(q, inflight)) =>
             \E r \in store' \ store :
                /\ store' = store \cup {r}
                /\ r.id \notin used
                /\ r.user_id = q.user_id
                /\ r.date = q.date
                /\ r.text = q.text]_vars

C6_Witness ==
    /\ Answered("create")
    /\ resp.status = 201
    /\ \E r1, r2 \in issued :
          /\ r1.id # r2.id
          /\ SameTriple(r1, r2)
          /\ r1 \in store
          /\ r2 \in resp.body

\* C7: no two stored reminders have the same id; every reminder a create
\* returned is stored unchanged (same id, user_id, date and text) until it is
\* deleted, and every stored row is one a create returned or has inserted and
\* is about to return; fetch-one and unfiltered fetch-many by the owner return
\* it under that id; a call of the repository's update rewrites no row.
C7_IdUniqueAndStable ==
    /\ \A r1, r2 \in store : r1.id = r2.id => r1 = r2
    /\ issued \subseteq store
    /\ store \subseteq issued \cup Pending(inflight)
    /\ resp.op = "update" => post = pre
    /\ \A r \in issued :
          /\ (Answered("get") /\ resp.id = r.id /\ resp.header = r.user_id) =>
                resp.body = {r}
          /\ (Answered("get_all") /\ resp.header = r.user_id /\ Unbounded) =>
                r \in resp.body

C7_Witness ==
    /\ Cardinality(store) = 2
    /\ Answered("get")
    /\ resp.status = 200
    /\ resp.body \subseteq issued

\* C8: a successful create answers with the request's date and text, the
\* caller as user_id and a generated id no other stored row has; a fetch-one
\* for that id by the owner, with no delete in between, returns the same id,
\* date, text and user_id.
C8_CreateFetchRoundTrip ==
    /\ (Answered("create") /\ resp.status = 201) =>
          \E r \in resp.body :
             /\ resp.body = {r}
             /\ r.id \in used
             /\ \A q \in pre : q.id = r.id => q = r
             /\ r.user_id = resp.header
             /\ r.date = resp.date
             /\ r.text = resp.text
             /\ r \in issued
    /\ \A r \in issued :
          (Answered("get") /\ resp.id = r.id /\ resp.header = r.user_id) =>
             (resp.status = 200 /\ resp.body = {r})

C8_Witness ==
    /\ Answered("get")
    /\ resp.status = 200
    /\ \E r \in issued : resp.body = {r} /\ r.text = "b" /\ r.date = 2

\* C9: a request without the X-User-Id header is answered 422 with no row and
\* leaves the store as it was, whichever of the four operations it is; the
\* reminders created before stay stored.
C9_MissingHeaderNoEffect ==
    (resp.op \in {"get", "get_all", "create", "delete"}
     /\ resp.header = NoHeader) =>
        /\ resp.status = 422
        /\ resp.body = {}
        /\ post = pre
        /\ issued \subseteq store

C9_Witness ==
    /\ resp.op = "delete"
    /\ resp.header = NoHeader
    /\ resp.status = 422
    /\ \E r \in post : r.id = resp.id

\* C10: a delete removes at most the one row with the requested id and owner
\* and changes nothing else; when the row with that id belongs to another
\* owner the store is unchanged; fetch-one and fetch-many leave the store as
\* it was.
C10_DeleteOwnerScoped ==
    /\ resp.op = "delete" =>
          /\ post \subseteq pre
          /\ pre \ post \subseteq Asked(pre)
          /\ Cardinality(pre \ post) <= 1
          /\ (\E r \in pre : r.id = resp.id /\ r.user_id # resp.header) =>
                post = pre
    /\ resp.op \in {"get", "get_all"} => post = pre

C10_Witness ==
    /\ Answered("delete")
    /\ resp.status = 200
    /\ post = pre
    /\ \E r \in post : r.id = resp.id /\ r.user_id # resp.header

====
